---- MODULE Spec2Model ----
(***************************************************************************)
(* Trace replay of the WebGPU player (player/src/lib.rs).                  *)
(*                                                                         *)
(* `process` and `encode_commands` are modelled as operators that return   *)
(* the sequence of hub/backend calls they issue and the panic, if any,     *)
(* that ends them.  What the hub answers (a Result that is Err, the id a   *)
(* call returns, the bytes a blob file holds) is not decided by the player *)
(* and is an input of each operator: the outcome `o`.                      *)
(*                                                                         *)
(* The query operations of a command encoder (wgpu-core command/query.rs)  *)
(* and the Trace of a capture (wgpu-core device/trace.rs) are modelled the *)
(* same way, each with a specification of its own.                         *)
(***************************************************************************)
EXTENDS Integers, Sequences, FiniteSets, TLC

VARIABLES
    state,      \* replay state of the driver: "AwaitingInit" or "Running"
    device,     \* the DeviceId the driver passes to process (0 before Init)
    log,        \* the actions (or direct calls) consumed so far, in order
    effects,    \* the hub/backend calls issued so far, in order
    fatal,      \* "None", or the kind of panic that aborted the program
    call,       \* the arguments of the last direct call of an entry point
    returned,   \* what that call returned (0: nothing)
    hub,        \* the registries of the hub: buffers and query sets
    cmb,        \* the command buffer behind the open command encoder
    trace,      \* the Trace of a capture
    threads     \* the query calls in progress and the registry locks they hold

vars ==
    <<state, device, log, effects, fatal, call, returned, hub, cmb, trace,
      threads>>

\* ------------------------------------------------------------------ bounds

\* Actions of a replayed log, Init included.
MaxLog == 3
\* Commands carried by one Submit, when a single Submit is examined.
MaxCmds == 2
\* Largest buffer address of a WriteBuffer range.
MaxAddr == 2
\* Longest blob file, in bytes.
MaxBlob == 2

Ids == {1, 2}
DeviceIds == {1, 2}
Backends == {"Vulkan", "Metal", "Dx12", "Dx11"}
SubmissionIndices == {1, 2}
Bytes == {0, 7}

\* The backends compiled into a build for neither Apple nor Windows
\* (the cfg attributes of gfx_select).
CompiledBackends == {"Vulkan"}

\* gfx_select: the implementation a call on an id of this backend goes to.
gfx_select(backend) ==
    IF backend \in CompiledBackends THEN backend ELSE "unreachable"

\* Label texts as byte strings: empty, plain, and one holding a NUL byte.
Labels == {<<>>, <<97>>, <<97, 0>>}

\* ------------------------------------------------------------ hub calls

\* One call issued on the hub (`self.<name>::<B>(...)`): the device argument
\* (0 when the call takes none), the id arguments, the bytes passed, whether
\* the call returned Ok, the id it returned (0 when it returns none) and the
\* log position of the action that issued it.
Call(name, dev, args, data, ok, ret) ==
    [args |-> args, call |-> name, data |-> data, dev |-> dev,
     ok |-> ok, pos |-> 0, ret |-> ret]

\* What an arm of process did: the calls it issued and how it ended.
Done(fx) == [fatal |-> "None", fx |-> fx]
Panic(fx, kind) == [fatal |-> kind, fx |-> fx]

\* `.unwrap()` on the Result of the last call of fx: the arm goes on with
\* `rest` when the call returned Ok and panics otherwise.
Unwrap(fx, rest) ==
    IF fx[Len(fx)].ok
    THEN [fatal |-> rest.fatal, fx |-> fx \o rest.fx]
    ELSE Panic(fx, "CallFailure")

\* Label::new: CString::new(text).expect("invalid label") fails on a NUL byte.
LabelNew(text) ==
    IF text = <<>> THEN "null"
    ELSE IF \E i \in 1..Len(text) : text[i] = 0 THEN "invalid"
    ELSE "cstring"

MaintainIds(dev) == Call("device_maintain_ids", dev, <<>>, <<>>, TRUE, 0)

\* ------------------------------------------------------------- outcomes

\* std::fs::read(dir.join(data)): Err, or the bytes of the file.
Missing == [bytes |-> <<>>, ok |-> FALSE]
ReadOf(bytes) == [bytes |-> bytes, ok |-> TRUE]

\* What the environment answers during one call of process:
\*   ok       the Result of the arm's fallible creation call is Ok
\*   built    RenderBundleEncoder::new returned Ok
\*   read     the result of std::fs::read
\*   view     swap_chain_get_current_texture_view: "Err", Ok without a view
\*            id ("NoView") or Ok with one ("View")
\*   wait     device_wait_for_buffer returned Ok
\*   fail     in a Submit, the number of the first fallible call that returns
\*            Err (the commands, then finish, then queue_submit); 0: none
\*   enc      the id comb_manager.alloc hands out for the new encoder
\*   comb     the id command_encoder_finish returns
\*   checked  the build panics on integer overflow (debug) or wraps (release)
Calm ==
    [built |-> TRUE, checked |-> TRUE, comb |-> 1, enc |-> 1, fail |-> 0,
     ok |-> TRUE, read |-> Missing, view |-> "View", wait |-> TRUE]

\* --------------------------------------------------- encode_commands

CommandKinds ==
    {"CopyBufferToBuffer", "CopyBufferToTexture", "CopyTextureToBuffer",
     "CopyTextureToTexture", "RunComputePass", "RunRenderPass"}

\* A trace::Command: its variant and its payload (abridged to one id).
Commands == [arg : Ids, kind : CommandKinds]

\* The encoder call one command is replayed by; `ok` is its Result.
EncodeCommand(encoder, command, ok) ==
    CASE command.kind = "CopyBufferToBuffer" ->
            Call("command_encoder_copy_buffer_to_buffer", 0,
                 <<encoder, command.arg>>, <<>>, ok, 0)
      [] command.kind = "CopyBufferToTexture" ->
            Call("command_encoder_copy_buffer_to_texture", 0,
                 <<encoder, command.arg>>, <<>>, ok, 0)
      [] command.kind = "CopyTextureToBuffer" ->
            Call("command_encoder_copy_texture_to_buffer", 0,
                 <<encoder, command.arg>>, <<>>, ok, 0)
      [] command.kind = "CopyTextureToTexture" ->
            Call("command_encoder_copy_texture_to_texture", 0,
                 <<encoder, command.arg>>, <<>>, ok, 0)
      [] command.kind = "RunComputePass" ->
            Call("command_encoder_run_compute_pass_impl", 0,
                 <<encoder, command.arg>>, <<>>, ok, 0)
      [] command.kind = "RunRenderPass" ->
            Call("command_encoder_run_render_pass_impl", 0,
                 <<encoder, command.arg>>, <<>>, ok, 0)

\* The `for command in commands` loop from command i on, each call unwrapped,
\* then command_encoder_finish(encoder).unwrap(), whose id is returned.
RECURSIVE EncodeFrom(_, _, _, _)
EncodeFrom(encoder, commands, i, o) ==
    IF i > Len(commands)
    THEN LET finish == Call("command_encoder_finish", 0, <<encoder>>, <<>>,
                            o.fail # Len(commands) + 1, o.comb)
         IN  IF finish.ok
             THEN [fatal |-> "None", fx |-> <<finish>>, ret |-> finish.ret]
             ELSE [fatal |-> "CallFailure", fx |-> <<finish>>, ret |-> 0]
    ELSE LET c == EncodeCommand(encoder, commands[i], o.fail # i)
         IN  IF c.ok
             THEN LET rest == EncodeFrom(encoder, commands, i + 1, o)
                  IN  [fatal |-> rest.fatal, fx |-> <<c>> \o rest.fx,
                       ret |-> rest.ret]
             ELSE [fatal |-> "CallFailure", fx |-> <<c>>, ret |-> 0]

\* encode_commands, had the loop skipped the first command.
encode_commands_skipping(encoder, commands, o) ==
    EncodeFrom(encoder, commands, 2, o)

encode_commands(encoder, commands, o) == EncodeFrom(encoder, commands, 1, o)

\* ------------------------------------------------------ arms of process

\* InitArm, had the arm accepted a second Init in silence.
InitArmIgnored(dev, a, o) == Done(<<>>)

\* A::Init { .. } => panic!(...)
InitArm(dev, a, o) == Panic(<<>>, "ProtocolViolation")

\* A::CreateSwapChain { .. } | A::PresentSwapChain(_) => panic!(...)
SwapChainArm(dev, a, o) == Panic(<<>>, "ProtocolViolation")

CreateBuffer(dev, a, o) ==
    IF LabelNew(a.label) = "invalid" THEN Panic(<<>>, "InvalidLabel")
    ELSE Done(<<MaintainIds(dev),
                Call("device_create_buffer", dev, <<a.id>>, <<>>, TRUE, 0)>>)

CreateTexture(dev, a, o) ==
    IF LabelNew(a.label) = "invalid" THEN Panic(<<>>, "InvalidLabel")
    ELSE Done(<<MaintainIds(dev),
                Call("device_create_texture", dev, <<a.id>>, <<>>, TRUE, 0)>>)

\* desc is an Option: a.desc is <<>> (None) or <<label>> (Some).
CreateTextureView(dev, a, o) ==
    IF a.desc # <<>> /\ LabelNew(a.desc[1]) = "invalid"
    THEN Panic(<<>>, "InvalidLabel")
    ELSE Done(<<MaintainIds(dev),
                Call("texture_create_view", 0, <<a.parent_id, a.id>>, <<>>,
                     TRUE, 0)>>)

CreateSampler(dev, a, o) ==
    IF LabelNew(a.label) = "invalid" THEN Panic(<<>>, "InvalidLabel")
    ELSE Done(<<MaintainIds(dev),
                Call("device_create_sampler", dev, <<a.id>>, <<>>, TRUE, 0)>>)

\* GetSwapChainTexture, had it shared the arm of the other swap-chain actions.
GetSwapChainTextureFatal(dev, a, o) == Panic(<<>>, "ProtocolViolation")

\* a.id is an Option<TextureViewId>: <<>> (None) or <<id>> (Some).
GetSwapChainTexture(dev, a, o) ==
    IF a.id # <<>>
    THEN LET get == Call("swap_chain_get_current_texture_view", 0,
                         <<a.parent_id, a.id[1]>>, <<>>, o.view # "Err", 0)
         IN  Unwrap(<<get>>, IF o.view = "NoView"
                             THEN Panic(<<>>, "CallFailure")
                             ELSE Done(<<>>))
    ELSE Done(<<>>)

CreateBindGroupLayout(dev, a, o) ==
    Unwrap(<<Call("device_create_bind_group_layout", dev, <<a.id>>, <<>>,
                  o.ok, 0)>>, Done(<<>>))

CreatePipelineLayout(dev, a, o) ==
    Unwrap(<<MaintainIds(dev),
             Call("device_create_pipeline_layout", dev, <<a.id>>, <<>>,
                  o.ok, 0)>>, Done(<<>>))

CreateBindGroup(dev, a, o) ==
    Unwrap(<<MaintainIds(dev),
             Call("device_create_bind_group", dev, <<a.id>>, <<>>,
                  o.ok, 0)>>, Done(<<>>))

\* byte_vec.chunks(4).map(|c| u32::from_le_bytes([c[0], c[1], c[2], c[3]])):
\* indexing a last chunk shorter than 4 bytes panics.
RECURSIVE SpirV(_)
SpirV(bytes) ==
    IF Len(bytes) = 0 THEN <<>>
    ELSE <<bytes[1] + 256 * bytes[2] + 65536 * bytes[3]
           + 16777216 * bytes[4]>> \o SpirV(SubSeq(bytes, 5, Len(bytes)))

CreateShaderModule(dev, a, o) ==
    IF ~o.read.ok THEN Panic(<<>>, "IOFailure")
    ELSE IF Len(o.read.bytes) % 4 # 0 THEN Panic(<<>>, "OutOfBounds")
    ELSE Done(<<Call("device_create_shader_module", dev, <<a.id>>,
                     SpirV(o.read.bytes), TRUE, 0)>>)

CreateComputePipeline(dev, a, o) ==
    Unwrap(<<MaintainIds(dev),
             Call("device_create_compute_pipeline", dev, <<a.id>>, <<>>,
                  o.ok, 0)>>, Done(<<>>))

CreateRenderPipeline(dev, a, o) ==
    Unwrap(<<MaintainIds(dev),
             Call("device_create_render_pipeline", dev, <<a.id>>, <<>>,
                  o.ok, 0)>>, Done(<<>>))

\* RenderBundleEncoder::new builds a value of the player and calls no hub.
CreateRenderBundle(dev, a, o) ==
    IF LabelNew(a.label) = "invalid" THEN Panic(<<>>, "InvalidLabel")
    ELSE IF ~o.built THEN Panic(<<>>, "CallFailure")
    ELSE Unwrap(<<Call("render_bundle_encoder_finish", 0, <<a.id>>, <<>>,
                       o.ok, 0)>>, Done(<<>>))

CreateQuerySet(dev, a, o) ==
    Done(<<Call("device_create_query_set", dev, <<a.id>>, <<>>, TRUE, 0)>>)

\* DestroyCall, had two arms been given each other's call.
DestroyCallSwapped ==
    [DestroyBuffer |-> "buffer_destroy",
     DestroyTexture |-> "texture_view_destroy",
     DestroyTextureView |-> "texture_destroy",
     DestroySampler |-> "sampler_destroy",
     DestroyBindGroupLayout |-> "bind_group_layout_destroy",
     DestroyPipelineLayout |-> "pipeline_layout_destroy",
     DestroyBindGroup |-> "bind_group_destroy",
     DestroyShaderModule |-> "shader_module_destroy",
     DestroyComputePipeline |-> "compute_pipeline_destroy",
     DestroyRenderPipeline |-> "render_pipeline_destroy",
     DestroyRenderBundle |-> "render_bundle_destroy",
     DestroyQuerySet |-> "query_set_destroy"]

\* The hub call of each A::Destroy*(id) arm.
DestroyCall ==
    [DestroyBuffer |-> "buffer_destroy",
     DestroyTexture |-> "texture_destroy",
     DestroyTextureView |-> "texture_view_destroy",
     DestroySampler |-> "sampler_destroy",
     DestroyBindGroupLayout |-> "bind_group_layout_destroy",
     DestroyPipelineLayout |-> "pipeline_layout_destroy",
     DestroyBindGroup |-> "bind_group_destroy",
     DestroyShaderModule |-> "shader_module_destroy",
     DestroyComputePipeline |-> "compute_pipeline_destroy",
     DestroyRenderPipeline |-> "render_pipeline_destroy",
     DestroyRenderBundle |-> "render_bundle_destroy",
     DestroyQuerySet |-> "query_set_destroy"]

DestroyTypes == DOMAIN DestroyCall

\* DestroyArm, had it forwarded the destroy twice.
DestroyArmTwice(dev, a, o) ==
    Done(<<Call(DestroyCall[a.type], 0, <<a.id>>, <<>>, TRUE, 0),
           Call(DestroyCall[a.type], 0, <<a.id>>, <<>>, TRUE, 0)>>)

DestroyArm(dev, a, o) ==
    Done(<<Call(DestroyCall[a.type], 0, <<a.id>>, <<>>, TRUE, 0)>>)

\* WriteBuffer, had the queued branch waited for the buffer as well.
WriteBufferQueuedWaits(dev, a, o) ==
    LET start == a.range[1]
        end == a.range[2]
        bin == o.read.bytes
        wait == Call("device_wait_for_buffer", dev, <<a.id>>, <<>>, o.wait, 0)
    IN  IF ~o.read.ok THEN Panic(<<>>, "IOFailure")
        ELSE IF end < start /\ o.checked THEN Panic(<<>>, "Overflow")
        ELSE IF a.queued
        THEN Unwrap(<<wait>>,
                    Done(<<Call("queue_write_buffer", dev, <<a.id, start>>,
                                bin, TRUE, 0)>>))
        ELSE Unwrap(<<wait>>,
                    IF end < start \/ end - start > Len(bin)
                    THEN Panic(<<>>, "OutOfBounds")
                    ELSE Done(<<Call("device_set_buffer_sub_data", dev,
                                     <<a.id, start>>,
                                     SubSeq(bin, 1, end - start), TRUE, 0)>>))

\* WriteBuffer, had the Result of the wait been dropped instead of unwrapped.
WriteBufferUnchecked(dev, a, o) ==
    LET start == a.range[1]
        end == a.range[2]
        bin == o.read.bytes
    IN  IF ~o.read.ok THEN Panic(<<>>, "IOFailure")
        ELSE IF end < start /\ o.checked THEN Panic(<<>>, "Overflow")
        ELSE IF a.queued
        THEN Done(<<Call("queue_write_buffer", dev, <<a.id, start>>, bin,
                         TRUE, 0)>>)
        ELSE IF end < start \/ end - start > Len(bin)
        THEN Panic(<<Call("device_wait_for_buffer", dev, <<a.id>>, <<>>,
                          o.wait, 0)>>, "OutOfBounds")
        ELSE Done(<<Call("device_wait_for_buffer", dev, <<a.id>>, <<>>,
                         o.wait, 0),
                    Call("device_set_buffer_sub_data", dev, <<a.id, start>>,
                         SubSeq(bin, 1, end - start), TRUE, 0)>>)

\* a.range is <<start, end>>.  size = (range.end - range.start) as usize is
\* computed before the branch: with end < start it panics in a build that
\* checks overflow and wraps to a huge size otherwise.
WriteBuffer(dev, a, o) ==
    LET start == a.range[1]
        end == a.range[2]
        bin == o.read.bytes
    IN  IF ~o.read.ok THEN Panic(<<>>, "IOFailure")
        ELSE IF end < start /\ o.checked THEN Panic(<<>>, "Overflow")
        ELSE IF a.queued
        THEN Done(<<Call("queue_write_buffer", dev, <<a.id, start>>, bin,
                         TRUE, 0)>>)
        ELSE Unwrap(<<Call("device_wait_for_buffer", dev, <<a.id>>, <<>>,
                           o.wait, 0)>>,
                    IF end < start \/ end - start > Len(bin)
                    THEN Panic(<<>>, "OutOfBounds")
                    ELSE Done(<<Call("device_set_buffer_sub_data", dev,
                                     <<a.id, start>>,
                                     SubSeq(bin, 1, end - start), TRUE, 0)>>))

\* WriteTexture, had an unreadable blob been replaced by an empty one.
WriteTextureUnreadable(dev, a, o) ==
    Done(<<Call("queue_write_texture", dev, <<a.to>>,
                IF o.read.ok THEN o.read.bytes ELSE <<>>, TRUE, 0)>>)

WriteTexture(dev, a, o) ==
    IF ~o.read.ok THEN Panic(<<>>, "IOFailure")
    ELSE Done(<<Call("queue_write_texture", dev, <<a.to>>, o.read.bytes,
                     TRUE, 0)>>)

\* Submit, had the finished command buffer never been submitted.
SubmitUnsubmitted(dev, a, o) ==
    LET create == Call("device_create_command_encoder", dev, <<o.enc>>, <<>>,
                       TRUE, o.enc)
        encoded == encode_commands(create.ret, a.commands, o)
    IN  Panic(<<create>> \o encoded.fx, encoded.fatal)

\* Submit, had the command buffer been put twice in the submitted list.
SubmitDoubled(dev, a, o) ==
    LET create == Call("device_create_command_encoder", dev, <<o.enc>>, <<>>,
                       TRUE, o.enc)
        encoded == encode_commands(create.ret, a.commands, o)
    IN  IF encoded.fatal # "None"
        THEN Panic(<<create>> \o encoded.fx, encoded.fatal)
        ELSE Unwrap(<<create>> \o encoded.fx
                    \o <<Call("queue_submit", dev,
                              <<encoded.ret, encoded.ret>>, <<>>,
                              o.fail # Len(a.commands) + 2, 0)>>,
                    Done(<<>>))

\* A::Submit(_index, commands).  The id comb_manager.alloc hands out is the
\* id of the new encoder: the identity handler passes ids through.
Submit(dev, a, o) ==
    LET create == Call("device_create_command_encoder", dev, <<o.enc>>, <<>>,
                       TRUE, o.enc)
        encoded == encode_commands(create.ret, a.commands, o)
    IN  IF encoded.fatal # "None"
        THEN Panic(<<create>> \o encoded.fx, encoded.fatal)
        ELSE Unwrap(<<create>> \o encoded.fx
                    \o <<Call("queue_submit", dev, <<encoded.ret>>, <<>>,
                              o.fail # Len(a.commands) + 2, 0)>>,
                    Done(<<>>))

\* GlobalPlay::process: the match on the action.
process(dev, a, o) ==
    CASE a.type = "Init" -> InitArm(dev, a, o)
      [] a.type \in {"CreateSwapChain", "PresentSwapChain"} ->
            SwapChainArm(dev, a, o)
      [] a.type = "CreateBuffer" -> CreateBuffer(dev, a, o)
      [] a.type = "CreateTexture" -> CreateTexture(dev, a, o)
      [] a.type = "CreateTextureView" -> CreateTextureView(dev, a, o)
      [] a.type = "CreateSampler" -> CreateSampler(dev, a, o)
      [] a.type = "GetSwapChainTexture" -> GetSwapChainTexture(dev, a, o)
      [] a.type = "CreateBindGroupLayout" -> CreateBindGroupLayout(dev, a, o)
      [] a.type = "CreatePipelineLayout" -> CreatePipelineLayout(dev, a, o)
      [] a.type = "CreateBindGroup" -> CreateBindGroup(dev, a, o)
      [] a.type = "CreateShaderModule" -> CreateShaderModule(dev, a, o)
      [] a.type = "CreateComputePipeline" -> CreateComputePipeline(dev, a, o)
      [] a.type = "CreateRenderPipeline" -> CreateRenderPipeline(dev, a, o)
      [] a.type = "CreateRenderBundle" -> CreateRenderBundle(dev, a, o)
      [] a.type = "CreateQuerySet" -> CreateQuerySet(dev, a, o)
      [] a.type \in DestroyTypes -> DestroyArm(dev, a, o)
      [] a.type = "WriteBuffer" -> WriteBuffer(dev, a, o)
      [] a.type = "WriteTexture" -> WriteTexture(dev, a, o)
      [] a.type = "Submit" -> Submit(dev, a, o)

\* ------------------------------------------------------------ the inputs

RECURSIVE SeqsUpTo(_, _)
\* Every sequence over S of length at most n.
SeqsUpTo(S, n) ==
    IF n = 0 THEN {<<>>}
    ELSE LET shorter == SeqsUpTo(S, n - 1)
         IN  shorter \cup {Append(q, x) : q \in shorter, x \in S}

Blobs == SeqsUpTo(Bytes, MaxBlob)
ShaderBlobs == {<<7>>, <<7, 0, 0, 0>>}
Ranges == (0..MaxAddr) \X (0..MaxAddr)

InitActions == {[backend |-> b, type |-> "Init"] : b \in Backends}

SwapChainActions ==
    {[id |-> i, type |-> t] :
        t \in {"CreateSwapChain", "PresentSwapChain"}, i \in Ids}

GetSwapChainTextureActions ==
    {[id |-> v, parent_id |-> 1, type |-> "GetSwapChainTexture"] :
        v \in {<<>>} \cup {<<i>> : i \in Ids}}

CreateActions ==
    {[id |-> i, label |-> l, type |-> t] :
        t \in {"CreateBuffer", "CreateTexture", "CreateSampler",
               "CreateRenderBundle"},
        i \in Ids, l \in Labels}
    \cup {[desc |-> d, id |-> i, parent_id |-> 1,
           type |-> "CreateTextureView"] :
            i \in Ids, d \in {<<>>} \cup {<<l>> : l \in Labels}}
    \cup {[id |-> i, type |-> t] :
            t \in {"CreateBindGroupLayout", "CreatePipelineLayout",
                   "CreateBindGroup", "CreateComputePipeline",
                   "CreateRenderPipeline", "CreateQuerySet"},
            i \in Ids}
    \cup {[data |-> "data1.spv", id |-> i, type |-> "CreateShaderModule"] :
            i \in Ids}

DestroyActions == {[id |-> i, type |-> t] : t \in DestroyTypes, i \in Ids}

WriteBufferActions(ranges) ==
    {[data |-> "data1.bin", id |-> i, queued |-> q, range |-> r,
      type |-> "WriteBuffer"] : i \in Ids, r \in ranges, q \in BOOLEAN}

WriteTextureActions ==
    {[data |-> "data1.bin", to |-> i, type |-> "WriteTexture"] : i \in Ids}

SubmitActions(lists) ==
    {[commands |-> cs, index |-> n, type |-> "Submit"] :
        n \in SubmissionIndices, cs \in lists}

\* The command lists and write payloads of a replayed log: few, so that logs
\* of several actions stay checkable.
ReplayCommandLists ==
    {<<>>,
     <<[arg |-> 1, kind |-> "CopyBufferToBuffer"]>>,
     <<[arg |-> 2, kind |-> "RunComputePass"],
       [arg |-> 1, kind |-> "CopyTextureToBuffer"]>>}
ReplayRanges == {<<0, 1>>, <<1, 0>>}
ReplayBlobs == {<<7>>}
ReplayEncoderIds == {2}

ReplayActions ==
    InitActions \cup SwapChainActions \cup GetSwapChainTextureActions
    \cup CreateActions \cup DestroyActions
    \cup WriteBufferActions(ReplayRanges) \cup WriteTextureActions
    \cup SubmitActions(ReplayCommandLists)

\* The answers the environment can give while process handles action a, the
\* blob files holding one of `blobs` and the hub handing out one of `ids`.
Outcomes(a, blobs, ids) ==
    CASE a.type \in {"CreateBindGroupLayout", "CreatePipelineLayout",
                     "CreateBindGroup", "CreateComputePipeline",
                     "CreateRenderPipeline"} ->
            {[Calm EXCEPT !.ok = b] : b \in BOOLEAN}
      [] a.type = "CreateRenderBundle" ->
            {[Calm EXCEPT !.ok = b, !.built = c] : b \in BOOLEAN, c \in BOOLEAN}
      [] a.type = "GetSwapChainTexture" ->
            {[Calm EXCEPT !.view = v] : v \in {"Err", "NoView", "View"}}
      [] a.type = "CreateShaderModule" ->
            {[Calm EXCEPT !.read = r] :
                r \in {Missing} \cup {ReadOf(b) : b \in ShaderBlobs}}
      [] a.type = "WriteBuffer" ->
            {[Calm EXCEPT !.read = r, !.wait = w, !.checked = c] :
                r \in {Missing} \cup {ReadOf(b) : b \in blobs},
                w \in BOOLEAN, c \in BOOLEAN}
      [] a.type = "WriteTexture" ->
            {[Calm EXCEPT !.read = r] :
                r \in {Missing} \cup {ReadOf(b) : b \in blobs}}
      [] a.type = "Submit" ->
            {[Calm EXCEPT !.fail = f, !.enc = e, !.comb = c] :
                f \in 0..(Len(a.commands) + 2), e \in ids, c \in ids}
      [] OTHER -> {Calm}

\* Outside a replay no encoder is open on this hub and nothing is captured.
NoHub == [buffers |-> <<>>, query_sets |-> <<>>]
NoCmb == [raw |-> <<>>, trackers |-> <<>>]
NoTrace == [binary_id |-> 0, dir |-> {}, file |-> <<>>]
NoThreads == <<>>

\* ------------------------------------------------------- the replay driver

\* The calls of one action, marked with the action's position in the log.
Stamp(fx, pos) == [i \in 1..Len(fx) |-> [fx[i] EXCEPT !.pos = pos]]

Init ==
    /\ state = "AwaitingInit"
    /\ device = 0
    /\ log = <<>>
    /\ effects = <<>>
    /\ fatal = "None"
    /\ call = [commands |-> <<>>, encoder |-> 0]
    /\ returned = 0
    /\ hub = NoHub /\ cmb = NoCmb /\ trace = NoTrace
    /\ threads = NoThreads

\* The first action is Init: the driver makes the device on the backend the
\* action names, by backend dispatch, and starts running.
DriverInit ==
    /\ state = "AwaitingInit" /\ fatal = "None" /\ log = <<>>
    /\ \E a \in InitActions, d \in DeviceIds :
        /\ gfx_select(a.backend) = a.backend
        /\ log' = <<a>>
        /\ device' = d
    /\ state' = "Running"
    /\ UNCHANGED <<effects, fatal, call, returned, hub, cmb, trace, threads>>

\* The first action is an Init naming a backend the build has not: the
\* dispatch reaches its unreachable!() arm.
DriverFault ==
    /\ state = "AwaitingInit" /\ fatal = "None" /\ log = <<>>
    /\ \E a \in InitActions :
        /\ gfx_select(a.backend) = "unreachable"
        /\ log' = <<a>>
    /\ fatal' = "Unreachable"
    /\ UNCHANGED <<state, device, effects, call, returned,
                 hub, cmb, trace, threads>>

\* DriverReject, had the driver handed a first action that is not Init to
\* process as if it were running.
DriverRejectLenient ==
    /\ state = "AwaitingInit" /\ fatal = "None" /\ log = <<>>
    /\ \E a \in ReplayActions \ InitActions :
        \E o \in Outcomes(a, ReplayBlobs, ReplayEncoderIds) :
            LET r == process(1, a, o)
            IN  /\ log' = <<a>>
                /\ effects' = Stamp(r.fx, 1)
                /\ fatal' = r.fatal
    /\ UNCHANGED <<state, device, call, returned, hub, cmb, trace, threads>>

\* The first action is anything else: a fatal ProtocolViolation.
DriverReject ==
    /\ state = "AwaitingInit" /\ fatal = "None" /\ log = <<>>
    /\ \E a \in ReplayActions \ InitActions : log' = <<a>>
    /\ fatal' = "ProtocolViolation"
    /\ UNCHANGED <<state, device, effects, call, returned,
                 hub, cmb, trace, threads>>

\* While running, the next action of the log (one of `actions`, the log
\* holding at most `max`) goes to process; a panic of process ends the program.
Apply(actions, blobs, ids, max) ==
    /\ state = "Running" /\ fatal = "None" /\ Len(log) < max
    /\ \E a \in actions : \E o \in Outcomes(a, blobs, ids) :
        LET r == process(device, a, o)
        IN  /\ log' = Append(log, a)
            /\ effects' = effects \o Stamp(r.fx, Len(log) + 1)
            /\ fatal' = r.fatal
    /\ UNCHANGED <<state, device, call, returned, hub, cmb, trace, threads>>

DriverProcess == Apply(ReplayActions, ReplayBlobs, ReplayEncoderIds, MaxLog)

Next == DriverInit \/ DriverFault \/ DriverReject \/ DriverProcess

Spec == Init /\ [][Next]_vars

\* ------------------------------------------- one Submit, any command list

RunningInit ==
    /\ state = "Running"
    /\ device \in DeviceIds
    /\ log = <<>>
    /\ effects = <<>>
    /\ fatal = "None"
    /\ call = [commands |-> <<>>, encoder |-> 0]
    /\ returned = 0
    /\ hub = NoHub /\ cmb = NoCmb /\ trace = NoTrace
    /\ threads = NoThreads

CommandLists == SeqsUpTo(Commands, MaxCmds)

UnitSubmitActions == SubmitActions(CommandLists)

ProcessSubmit == Apply(UnitSubmitActions, {}, Ids, 1)

SpecSubmit == RunningInit /\ [][ProcessSubmit]_vars

\* ---------------------------------------- one WriteBuffer, any range and blob

UnitWriteBufferActions == WriteBufferActions(Ranges)

ProcessWriteBuffer == Apply(UnitWriteBufferActions, Blobs, Ids, 1)

SpecWrite == RunningInit /\ [][ProcessWriteBuffer]_vars

\* ------------------------------------------ encode_commands called directly

EncodeCommands ==
    /\ call.encoder = 0
    /\ \E e \in Ids, cs \in CommandLists :
        \E o \in {[Calm EXCEPT !.fail = f, !.comb = c] :
                    f \in 0..(Len(cs) + 1), c \in Ids} :
            LET r == encode_commands(e, cs, o)
            IN  /\ call' = [commands |-> cs, encoder |-> e]
                /\ effects' = r.fx
                /\ fatal' = r.fatal
                /\ returned' = r.ret
    /\ UNCHANGED <<state, device, log, hub, cmb, trace, threads>>

SpecEncode == RunningInit /\ [][EncodeCommands]_vars

\* --------------------------------------- queries of a command encoder

\* Query operations issued on one open command encoder.
MaxQueryOps == 2

\* query_index, first_query and query_count are u32.  The model checker's
\* integers stop below 2^32, so the index type is given IndexBits bits: its
\* arithmetic wraps (or panics) at 2^IndexBits as that of u32 does at 2^32.
IndexBits == 4
U32 == 2 ^ IndexBits

QuerySetIds == {1, 2, 3}
QueryIndices == {1, U32 - 1}
QueryCounts == {1, 2}
Offsets == {0, 16}
PipelineStages == {"TOP_OF_PIPE", "BOTTOM_OF_PIPE"}

\* The usage flags of the two buffers of the hub: in each hub one buffer may
\* be the destination of a copy and the other may not.
HubBuffers ==
    {<<{"COPY_DST"}, {"MAP_READ"}>>, <<{}, {"COPY_DST", "MAP_READ"}>>}

\* The query sets of the hub, one of each QueryType.
HubQuerySets ==
    <<[metrics |-> 0, type |-> "Occlusion"],
      [metrics |-> 2, type |-> "PipelineStatistics"],
      [metrics |-> 0, type |-> "Timestamp"]>>

\* One command recorded into a raw command buffer, with its arguments in
\* the order of the hal call.
Hal(cmd, args) == [args |-> args, cmd |-> cmd]

\* cmb.raw.last_mut().unwrap() followed by a recording call on it.
Record(c, command) == [c EXCEPT !.raw[Len(c.raw)] = Append(@, command)]

\* What an encoder call did: the command buffer it leaves and how it ended.
Left(c, kind) == [cmb |-> c, fatal |-> kind]

\* trackers.buffers.use_replace(storage, id, (), usage): the tracked usage of
\* the buffer is replaced and the transition from the old one is returned.
use_replace(trackers, id, usage) ==
    [pending |-> <<[buffer |-> id, usage |-> <<trackers[id], usage>>]>>,
     trackers |-> [trackers EXCEPT ![id] = usage]]

\* query_index..(query_index + 1) is evaluated before the first recording
\* call: it panics in a build that checks overflow and wraps otherwise.
command_encoder_begin_pipeline_statistics_query(c, query_set, query_index, checked) ==
    IF query_index + 1 >= U32 /\ checked THEN Left(c, "Overflow")
    ELSE LET reset == Hal("reset_query_pool",
                          <<query_set,
                            <<query_index, (query_index + 1) % U32>>>>)
             begin == Hal("begin_query", <<query_set, query_index, {}>>)
         IN  Left(Record(Record(c, reset), begin), "None")

command_encoder_end_pipeline_statistics_query(c, query_set, query_index) ==
    Left(Record(c, Hal("end_query", <<query_set, query_index>>)), "None")

command_encoder_write_timestamp(c, query_set, query_index, pipeline_stage) ==
    Left(Record(c, Hal("write_timestamp",
                       <<pipeline_stage, query_set, query_index>>)), "None")

\* command_encoder_resolve_query_set, had the usage of the destination not
\* been asserted.
resolve_query_set_unasserted(h, c, query_set, first_query, query_count, destination, destination_offset, checked) ==
    LET used == use_replace(c.trackers, destination, "COPY_DST")
        tracked == [c EXCEPT !.trackers = used.trackers]
        barrier == Hal("pipeline_barrier",
                       <<<<"ALL_BUFFER_STAGES", "TRANSFER">>, {},
                         used.pending>>)
        copy == Hal("copy_query_pool_results",
                    <<query_set,
                      <<first_query, (first_query + query_count) % U32>>,
                      destination, destination_offset, 16,
                      {"WAIT", "WITH_AVAILABILITY", "BITS_64"}>>)
    IN  IF first_query + query_count >= U32 /\ checked
        THEN Left(Record(tracked, barrier), "Overflow")
        ELSE Left(Record(Record(tracked, barrier), copy), "None")

\* command_encoder_resolve_query_set, had the stride followed the number of
\* values one entry of the query set holds.
resolve_query_set_strided(h, c, query_set, first_query, query_count, destination, destination_offset, checked) ==
    LET used == use_replace(c.trackers, destination, "COPY_DST")
        tracked == [c EXCEPT !.trackers = used.trackers]
        barrier == Hal("pipeline_barrier",
                       <<<<"ALL_BUFFER_STAGES", "TRANSFER">>, {},
                         used.pending>>)
        copy == Hal("copy_query_pool_results",
                    <<query_set,
                      <<first_query, (first_query + query_count) % U32>>,
                      destination, destination_offset,
                      8 * (1 + h.query_sets[query_set].metrics),
                      {"WAIT", "WITH_AVAILABILITY", "BITS_64"}>>)
    IN  IF "COPY_DST" \notin h.buffers[destination]
        THEN Left(tracked, "PreconditionFailure")
        ELSE IF first_query + query_count >= U32 /\ checked
        THEN Left(Record(tracked, barrier), "Overflow")
        ELSE Left(Record(Record(tracked, barrier), copy), "None")

\* use_replace comes first, then the assert! on the usage of the buffer,
\* then the barrier, then the copy; first_query + query_count is evaluated
\* as an argument of the copy, after the barrier has been recorded.
command_encoder_resolve_query_set(h, c, query_set, first_query, query_count, destination, destination_offset, checked) ==
    LET used == use_replace(c.trackers, destination, "COPY_DST")
        tracked == [c EXCEPT !.trackers = used.trackers]
        barrier == Hal("pipeline_barrier",
                       <<<<"ALL_BUFFER_STAGES", "TRANSFER">>, {},
                         used.pending>>)
        copy == Hal("copy_query_pool_results",
                    <<query_set,
                      <<first_query, (first_query + query_count) % U32>>,
                      destination, destination_offset, 16,
                      {"WAIT", "WITH_AVAILABILITY", "BITS_64"}>>)
    IN  IF "COPY_DST" \notin h.buffers[destination]
        THEN Left(tracked, "PreconditionFailure")
        ELSE IF first_query + query_count >= U32 /\ checked
        THEN Left(Record(tracked, barrier), "Overflow")
        ELSE Left(Record(Record(tracked, barrier), copy), "None")

\* A hub with two buffers and the three query sets, and an open encoder that
\* tracks no buffer yet.
QueryInit ==
    /\ state = "Running"
    /\ device = 1
    /\ log = <<>>
    /\ effects = <<>>
    /\ fatal = "None"
    /\ call = [op |-> "none"]
    /\ returned = 0
    /\ \E b \in HubBuffers :
        hub = [buffers |-> b, query_sets |-> HubQuerySets]
    /\ cmb = [raw |-> <<<<>>>>, trackers |-> [i \in Ids |-> "EMPTY"]]
    /\ trace = NoTrace
    /\ threads = NoThreads

\* One call on the encoder: the call is noted, the command buffer is left as
\* the call leaves it, and a panic ends the run.
Encoded(c, r) ==
    /\ call' = c
    /\ log' = Append(log, c)
    /\ cmb' = r.cmb
    /\ fatal' = r.fatal
    /\ UNCHANGED <<state, device, effects, returned, hub, trace, threads>>

BeginPipelineStatisticsQuery ==
    /\ fatal = "None" /\ Len(log) < MaxQueryOps
    /\ \E q \in QuerySetIds, i \in QueryIndices, k \in BOOLEAN :
        Encoded([checked |-> k, op |-> "begin_pipeline_statistics_query",
                 query_index |-> i, query_set |-> q],
                command_encoder_begin_pipeline_statistics_query(cmb, q, i, k))

EndPipelineStatisticsQuery ==
    /\ fatal = "None" /\ Len(log) < MaxQueryOps
    /\ \E q \in QuerySetIds, i \in QueryIndices :
        Encoded([op |-> "end_pipeline_statistics_query",
                 query_index |-> i, query_set |-> q],
                command_encoder_end_pipeline_statistics_query(cmb, q, i))

WriteTimestamp ==
    /\ fatal = "None" /\ Len(log) < MaxQueryOps
    /\ \E q \in QuerySetIds, i \in QueryIndices, p \in PipelineStages :
        Encoded([op |-> "write_timestamp", pipeline_stage |-> p,
                 query_index |-> i, query_set |-> q],
                command_encoder_write_timestamp(cmb, q, i, p))

ResolveQuerySet ==
    /\ fatal = "None" /\ Len(log) < MaxQueryOps
    /\ \E q \in QuerySetIds, f \in QueryIndices, n \in QueryCounts,
          d \in Ids, at \in Offsets, k \in BOOLEAN :
        Encoded([checked |-> k, destination |-> d,
                 destination_offset |-> at, first_query |-> f,
                 op |-> "resolve_query_set", query_count |-> n,
                 query_set |-> q],
                command_encoder_resolve_query_set(hub, cmb, q, f, n, d, at,
                                                  k))

QueryNext ==
    \/ BeginPipelineStatisticsQuery
    \/ EndPipelineStatisticsQuery
    \/ WriteTimestamp
    \/ ResolveQuerySet

SpecQuery == QueryInit /\ [][QueryNext]_vars

\* ------------------------------------------------------ capture: Trace

\* Calls made on one Trace.
MaxTraceCalls == 3

BlobKinds == {"bin", "spv"}
TraceBlobs == {<<>>, <<7>>}

\* The actions handed to Trace::add.
TraceActions ==
    {[backend |-> "Vulkan", type |-> "Init"]}
    \cup {[id |-> i, type |-> "DestroyBuffer"] : i \in Ids}
    \cup {[data |-> "data1.bin", id |-> 1, queued |-> q, range |-> <<0, 1>>,
           type |-> "WriteBuffer"] : q \in BOOLEAN}

\* format!("data{}.{}", binary_id, kind)
BinaryName(binary_id, kind) == "data" \o ToString(binary_id) \o "." \o kind

\* A serializer that writes the name of the variant and its id, no other
\* field.
to_string_variant(action, ok) ==
    IF ~ok THEN [ok |-> FALSE, string |-> ""]
    ELSE [ok |-> TRUE,
          string |->
            IF action.type = "Init" THEN "Init()"
            ELSE action.type \o "(" \o ToString(action.id) \o ")"]

\* ron::ser::to_string_pretty(&action, config): Err, or the text of the
\* record: the name of the variant and its fields.
to_string_pretty(action, ok) ==
    IF ~ok THEN [ok |-> FALSE, string |-> ""]
    ELSE [ok |-> TRUE,
          string |->
            CASE action.type = "Init" ->
                    "Init(backend: " \o action.backend \o ")"
              [] action.type = "WriteBuffer" ->
                    "WriteBuffer(id: " \o ToString(action.id)
                    \o ", data: " \o action.data
                    \o ", range: (start: " \o ToString(action.range[1])
                    \o ", end: " \o ToString(action.range[2])
                    \o "), queued: "
                    \o (IF action.queued THEN "true" ELSE "false") \o ")"
              [] OTHER ->
                    action.type \o "(" \o ToString(action.id) \o ")"]

\* What a call on the Trace did: the Trace it leaves and what it returned.
Traced(t, ret) == [ret |-> ret, trace |-> t]

\* make_binary, had a failed write of the blob file ended the call early.
make_binary_unwritten(t, kind, data, written) ==
    LET binary_id == t.binary_id + 1
        name == BinaryName(binary_id, kind)
    IN  IF written
        THEN Traced([t EXCEPT !.binary_id = binary_id,
                              !.dir = {f \in @ : f[1] # name}
                                      \cup {<<name, data>>}],
                    name)
        ELSE Traced(t, 0)

\* make_binary, had the name been formatted before the counter was advanced.
make_binary_stale(t, kind, data, written) ==
    LET name == BinaryName(t.binary_id, kind)
    IN  Traced([t EXCEPT !.binary_id = @ + 1,
                         !.dir = IF written
                                 THEN {f \in @ : f[1] # name}
                                      \cup {<<name, data>>}
                                 ELSE @],
               name)

\* The Result of std::fs::write is dropped: `written` tells whether the
\* file came to hold the data.
make_binary(t, kind, data, written) ==
    LET binary_id == t.binary_id + 1
        name == BinaryName(binary_id, kind)
    IN  Traced([t EXCEPT !.binary_id = binary_id,
                         !.dir = IF written
                                 THEN {f \in @ : f[1] # name}
                                      \cup {<<name, data>>}
                                 ELSE @],
               name)

\* add, had the record been written without the separator after it.
add_unseparated(t, action, ok, written) ==
    LET text == to_string_pretty(action, ok)
    IN  IF text.ok /\ written
        THEN Traced([t EXCEPT !.file = Append(@, text.string)], 0)
        ELSE Traced(t, 0)

\* add, had a record that fails to serialize been written as an empty one.
add_empty(t, action, ok, written) ==
    LET text == to_string_pretty(action, ok)
    IN  IF written
        THEN Traced([t EXCEPT !.file = Append(@, text.string \o ",\n")], 0)
        ELSE Traced(t, 0)

\* Ok(string) => writeln!(self.file, "{},", string), its Result dropped;
\* Err(e) => log::warn!.
add(t, action, ok, written) ==
    LET text == to_string_pretty(action, ok)
    IN  IF text.ok /\ written
        THEN Traced([t EXCEPT !.file = Append(@, text.string \o ",\n")], 0)
        ELSE Traced(t, 0)

\* Trace::new(path) returned Ok: the file holds the opening bracket.
TraceInit ==
    /\ state = "Tracing"
    /\ device = 0
    /\ log = <<>>
    /\ effects = <<>>
    /\ fatal = "None"
    /\ call = [op |-> "new"]
    /\ returned = 0
    /\ hub = NoHub /\ cmb = NoCmb /\ threads = NoThreads
    /\ trace = [binary_id |-> 0, dir |-> {}, file |-> <<"[\n">>]

\* One call on the Trace: the call is noted with what it returned.
TraceCall(c, r) ==
    /\ call' = c
    /\ returned' = r.ret
    /\ log' = Append(log, [call |-> c, ret |-> r.ret])
    /\ trace' = r.trace
    /\ UNCHANGED <<state, device, effects, fatal, hub, cmb, threads>>

MakeBinary ==
    /\ state = "Tracing" /\ Len(log) < MaxTraceCalls
    /\ \E k \in BlobKinds, d \in TraceBlobs, w \in BOOLEAN :
        TraceCall([data |-> d, kind |-> k, op |-> "make_binary",
                   written |-> w],
                  make_binary(trace, k, d, w))

Add ==
    /\ state = "Tracing" /\ Len(log) < MaxTraceCalls
    /\ \E a \in TraceActions, ok \in BOOLEAN, w \in BOOLEAN :
        TraceCall([action |-> a, ok |-> ok, op |-> "add", written |-> w],
                  add(trace, a, ok, w))

\* impl Drop for Trace: the closing bracket, the Result of the write dropped.
DropTrace ==
    /\ state = "Tracing"
    /\ state' = "Dropped"
    /\ \E w \in BOOLEAN :
        /\ call' = [op |-> "drop", written |-> w]
        /\ trace' = [trace EXCEPT !.file = IF w THEN Append(@, "]") ELSE @]
    /\ UNCHANGED <<device, log, effects, fatal, returned, hub, cmb, threads>>

TraceNext == MakeBinary \/ Add \/ DropTrace

SpecTrace == TraceInit /\ [][TraceNext]_vars

\* ----------------------------------------------- reading a trace back

\* The names a blob file of the trace directory can have.
BlobNames == {BinaryName(n, k) : n \in 1..MaxTraceCalls, k \in BlobKinds}

\* The records of the trace format: the text of each and the action the
\* text stands for.
Grammar ==
    {<<"Init(backend: " \o b \o ")", [backend |-> b, type |-> "Init"]>> :
        b \in Backends}
    \cup {<<"DestroyBuffer(" \o ToString(i) \o ")",
            [id |-> i, type |-> "DestroyBuffer"]>> : i \in Ids}
    \cup {<<"WriteBuffer(id: " \o ToString(w[1]) \o ", data: " \o w[2]
              \o ", range: (start: " \o ToString(w[3]) \o ", end: "
              \o ToString(w[4]) \o "), queued: "
              \o (IF w[5] THEN "true" ELSE "false") \o ")",
            [data |-> w[2], id |-> w[1], queued |-> w[5],
             range |-> <<w[3], w[4]>>, type |-> "WriteBuffer"]>> :
           w \in Ids \X BlobNames \X (0..MaxAddr) \X (0..MaxAddr)
                 \X BOOLEAN}

\* The actions a piece of the file reads as: a record followed by a comma,
\* the comma being optional after the last record of the list.
from_str(text, last) ==
    {q[2] : q \in {g \in Grammar : \/ text = g[1] \o ",\n"
                                     \/ (last /\ text = g[1])}}

\* ron::de::from_reader(File::open(dir.join(FILE_NAME))): the list of the
\* actions between the brackets, or an error.
from_reader(file) ==
    LET n == Len(file)
        bracketed == n >= 2 /\ file[1] = "[\n" /\ file[n] = "]"
    IN  IF /\ bracketed
           /\ \A x \in 2..(n - 1) :
                Cardinality(from_str(file[x], x = n - 1)) = 1
        THEN [actions |->
                [x \in 1..(n - 2) |->
                    CHOOSE a \in from_str(file[x + 1], x = n - 2) : TRUE],
              ok |-> TRUE]
        ELSE [actions |-> <<>>, ok |-> FALSE]

\* std::fs::read(dir.join(name)): what the blob files of that name hold.
read(dir, name) == {f[2] : f \in {g \in dir : g[1] = name}}

\* ------------------------------------------- ids and the buffer registry

\* Largest epoch of a recorded id.
MaxEpoch == 2
\* Actions of a replay that creates, destroys and writes buffers.
MaxStale == 4

Epochs == 1..MaxEpoch

\* TypedId::zip(index, epoch, backend); unzip reads the three fields back.
zip(index, epoch, backend) ==
    [backend |-> backend, epoch |-> epoch, index |-> index]

\* The ids a trace may hold.
RecordedIds == {zip(i, e, b) : i \in Ids, e \in Epochs, b \in Backends}

\* IdentityPassThrough::process, had it handed out the first epoch of the
\* index whatever epoch was recorded.
IdentityPassThrough_reallocating(id, backend) == zip(id.index, 1, backend)

\* IdentityPassThrough::process, had it handed the recorded id back as it is.
IdentityPassThrough_recorded(id, backend) == id

\* let (index, epoch, _backend) = id.unzip(); I::zip(index, epoch, backend)
IdentityPassThrough_process(id, backend) == zip(id.index, id.epoch, backend)

\* A slot of the buffer registry: the epoch of its last occupant and whether
\* that occupant is still alive.
Vacant == [epoch |-> 0, live |-> FALSE]

\* resolve(id): the id names the live occupant of its slot, epoch and
\* backend included.
Resolves(buffers, id, backend) ==
    /\ buffers[id.index].live
    /\ buffers[id.index].epoch = id.epoch
    /\ id.backend = backend

\* What the hub makes of one call of the player on a device of this backend:
\* the registry it leaves and whether the id of the call resolved.
HubCall(buffers, c, backend) ==
    CASE c.call = "device_create_buffer" ->
            LET id == IdentityPassThrough_process(c.args[1], backend)
            IN  [buffers |-> [buffers EXCEPT ![id.index] =
                                [epoch |-> id.epoch, live |-> TRUE]],
                 fatal |-> "None"]
      [] c.call = "buffer_destroy" ->
            IF Resolves(buffers, c.args[1], backend)
            THEN [buffers |-> [buffers EXCEPT ![c.args[1].index].live = FALSE],
                  fatal |-> "None"]
            ELSE [buffers |-> buffers, fatal |-> "InvalidHandle"]
      [] c.call = "queue_write_buffer" ->
            IF Resolves(buffers, c.args[1], backend)
            THEN [buffers |-> buffers, fatal |-> "None"]
            ELSE [buffers |-> buffers, fatal |-> "InvalidHandle"]
      [] OTHER -> [buffers |-> buffers, fatal |-> "None"]

\* The calls of one action, taken by the hub in order until one fails.
RECURSIVE HubCalls(_, _, _, _)
HubCalls(buffers, fx, i, backend) ==
    IF i > Len(fx) THEN [buffers |-> buffers, fatal |-> "None"]
    ELSE LET r == HubCall(buffers, fx[i], backend)
         IN  IF r.fatal # "None" THEN r
             ELSE HubCalls(r.buffers, fx, i + 1, backend)

\* The device of the replay is a Vulkan device.
StaleBackend == "Vulkan"

\* The ids of the trace were recorded on the backend it is replayed on.
StaleIds == {zip(i, e, StaleBackend) : i \in Ids, e \in Epochs}

\* An id the capture could have handed out: the index is free and the epoch
\* is past that of the last occupant.
Fresh(buffers, id) ==
    ~buffers[id.index].live /\ id.epoch > buffers[id.index].epoch

StaleCreates ==
    {[id |-> i, label |-> <<>>, type |-> "CreateBuffer"] : i \in StaleIds}

StaleUses ==
    {[id |-> i, type |-> "DestroyBuffer"] : i \in StaleIds}
    \cup {[data |-> "data1.bin", id |-> i, queued |-> TRUE,
           range |-> <<0, 1>>, type |-> "WriteBuffer"] : i \in StaleIds}

\* The blob file of the trace can be read.
StaleOutcome == [Calm EXCEPT !.read = ReadOf(<<7>>)]

\* A running replay on a hub whose buffer registry is empty.
StaleInit ==
    /\ state = "Running"
    /\ device = 1
    /\ log = <<>>
    /\ effects = <<>>
    /\ fatal = "None"
    /\ call = [op |-> "none"]
    /\ returned = 0
    /\ hub = [buffers |-> [i \in Ids |-> Vacant], query_sets |-> <<>>]
    /\ cmb = NoCmb /\ trace = NoTrace /\ threads = NoThreads

\* One action of the trace: process issues its calls and the hub takes them.
Replayed(a) ==
    LET r == process(device, a, StaleOutcome)
        h == HubCalls(hub.buffers, r.fx, 1, StaleBackend)
    IN  /\ log' = Append(log, a)
        /\ effects' = effects \o Stamp(r.fx, Len(log) + 1)
        /\ hub' = [hub EXCEPT !.buffers = h.buffers]
        /\ fatal' = IF r.fatal # "None" THEN r.fatal ELSE h.fatal
        /\ UNCHANGED <<state, device, call, returned, cmb, trace, threads>>

ReplayCreate ==
    /\ fatal = "None" /\ Len(log) < MaxStale
    /\ \E a \in StaleCreates : Fresh(hub.buffers, a.id) /\ Replayed(a)

ReplayUse ==
    /\ fatal = "None" /\ Len(log) < MaxStale
    /\ \E a \in StaleUses : Replayed(a)

StaleNext == ReplayCreate \/ ReplayUse

SpecStale == StaleInit /\ [][StaleNext]_vars

\* ----------------------------------------- ids handed out and dispatched

\* Nothing has been handed to the identity handler yet.
IdentityInit ==
    /\ state = "Running"
    /\ device = 1
    /\ log = <<>>
    /\ effects = <<>>
    /\ fatal = "None"
    /\ call = [op |-> "none"]
    /\ returned = 0
    /\ hub = NoHub /\ cmb = NoCmb /\ trace = NoTrace
    /\ threads = NoThreads

\* The hub hands a recorded id to IdentityPassThrough::process together with
\* the backend of the resource being created.
IdentityProcess ==
    /\ call.op = "none"
    /\ \E id \in RecordedIds, backend \in Backends :
        /\ call' = [backend |-> backend, id |-> id, op |-> "process"]
        /\ returned' = IdentityPassThrough_process(id, backend)
    /\ UNCHANGED <<state, device, log, effects, fatal, hub, cmb, trace,
                   threads>>

\* gfx_select!(id => global.method(..)): the call goes to the implementation
\* of id.backend(), or to unreachable!().
Dispatch ==
    /\ call.op = "process" /\ effects = <<>> /\ fatal = "None"
    /\ LET target == gfx_select(returned.backend)
       IN  IF target = "unreachable"
           THEN fatal' = "Unreachable" /\ effects' = effects
           ELSE /\ effects' = <<[id |-> returned, implementation |-> target]>>
                /\ fatal' = fatal
    /\ UNCHANGED <<state, device, log, call, returned, hub, cmb, trace,
                   threads>>

IdentityNext == IdentityProcess \/ Dispatch

SpecIdentity == IdentityInit /\ [][IdentityNext]_vars

\* ------------------------------------- registry locks of the query calls

\* Two concurrent callers of the hub, and how many calls each of them makes.
MaxInvocations == 1
Threads == {1, 2}

\* The registries of the hub in the order in which the query calls take them.
Registries == <<"command_buffers", "query_sets", "buffers">>

Guard(registry, mode) == [mode |-> mode, registry |-> registry]

\* A lock sequence that takes the buffer registry before the other two.
LocksBuffersFirst(op) ==
    IF op = "resolve_query_set"
    THEN <<Guard("buffers", "read"), Guard("command_buffers", "write"),
           Guard("query_sets", "read")>>
    ELSE <<Guard("command_buffers", "write"), Guard("query_sets", "read")>>

\* The guards a query call takes, in the order of its let-bindings: each is
\* taken with the token the one before it returned.
Locks(op) ==
    IF op = "resolve_query_set"
    THEN <<Guard("command_buffers", "write"), Guard("query_sets", "read"),
           Guard("buffers", "read")>>
    ELSE <<Guard("command_buffers", "write"), Guard("query_sets", "read")>>

\* The query calls the concurrent callers make.
LockCalls ==
    {[checked |-> TRUE, op |-> "begin_pipeline_statistics_query",
      query_index |-> 1, query_set |-> 1],
     [op |-> "end_pipeline_statistics_query", query_index |-> 1,
      query_set |-> 1],
     [op |-> "write_timestamp", pipeline_stage |-> "TOP_OF_PIPE",
      query_index |-> 1, query_set |-> 2]}
    \cup {[checked |-> TRUE, destination |-> d, destination_offset |-> 0,
            first_query |-> 1, op |-> "resolve_query_set", query_count |-> 1,
            query_set |-> 2] : d \in Ids}

\* The body of a query call, run once its guards are held.
Invoke(h, c, k) ==
    CASE k.op = "begin_pipeline_statistics_query" ->
           command_encoder_begin_pipeline_statistics_query(
               c, k.query_set, k.query_index, k.checked)
      [] k.op = "end_pipeline_statistics_query" ->
           command_encoder_end_pipeline_statistics_query(
               c, k.query_set, k.query_index)
      [] k.op = "write_timestamp" ->
           command_encoder_write_timestamp(
               c, k.query_set, k.query_index, k.pipeline_stage)
      [] OTHER ->
           command_encoder_resolve_query_set(
               h, c, k.query_set, k.first_query, k.query_count,
               k.destination, k.destination_offset, k.checked)

Idle(done) == [call |-> [op |-> "none"], done |-> done, held |-> <<>>]

\* The modes in which a registry is held, by any caller.
Holders(ts, registry) ==
    UNION {{ts[t].held[x].mode :
               x \in {y \in 1..Len(ts[t].held) :
                         ts[t].held[y].registry = registry}} :
           t \in Threads}

\* A registry admits many readers or one writer.
Admits(ts, guard) ==
    IF guard.mode = "write"
    THEN Holders(ts, guard.registry) = {}
    ELSE "write" \notin Holders(ts, guard.registry)

InCall(ts, t) == ts[t].call.op # "none"

\* The guard a caller takes next, or none when it holds them all.
Wanted(ts, t) ==
    LET order == Locks(ts[t].call.op)
    IN  IF Len(ts[t].held) < Len(order)
        THEN {order[Len(ts[t].held) + 1]}
        ELSE {}

LocksInit ==
    /\ state = "Running"
    /\ device = 1
    /\ log = <<>>
    /\ effects = <<>>
    /\ fatal = "None"
    /\ call = [op |-> "none"]
    /\ returned = 0
    /\ \E b \in HubBuffers :
        hub = [buffers |-> b, query_sets |-> HubQuerySets]
    /\ cmb = [raw |-> <<<<>>>>, trackers |-> [i \in Ids |-> "EMPTY"]]
    /\ trace = NoTrace
    /\ threads = [t \in Threads |-> Idle(0)]

\* A caller enters a query call: Token::root(), no guard held yet.
Enter(t) ==
    /\ fatal = "None"
    /\ ~InCall(threads, t)
    /\ threads[t].done < MaxInvocations
    /\ \E k \in LockCalls :
        threads' = [threads EXCEPT ![t].call = k]
    /\ UNCHANGED <<state, device, log, effects, fatal, call, returned, hub,
                   cmb, trace>>

\* The caller takes its next guard when the registry admits it.
Acquire(t) ==
    /\ fatal = "None"
    /\ InCall(threads, t)
    /\ \E guard \in Wanted(threads, t) :
        /\ Admits(threads, guard)
        /\ threads' = [threads EXCEPT ![t].held = Append(@, guard)]
    /\ UNCHANGED <<state, device, log, effects, fatal, call, returned, hub,
                   cmb, trace>>

\* With every guard held the body runs, and the guards are dropped when the
\* call returns or unwinds.
Return(t) ==
    /\ fatal = "None"
    /\ InCall(threads, t)
    /\ Wanted(threads, t) = {}
    /\ LET r == Invoke(hub, cmb, threads[t].call)
       IN  /\ cmb' = r.cmb
           /\ fatal' = r.fatal
    /\ call' = threads[t].call
    /\ log' = Append(log, [call |-> threads[t].call, thread |-> t])
    /\ threads' = [threads EXCEPT ![t] = Idle(threads[t].done + 1)]
    /\ UNCHANGED <<state, device, effects, returned, hub, trace>>

LocksNext == \E t \in Threads : Enter(t) \/ Acquire(t) \/ Return(t)

SpecLocks == LocksInit /\ [][LocksNext]_vars

\* ================================================================ claims

\* The calls issued by the action at log position i, in order.
EffectsAt(i) == SelectSeq(effects, LAMBDA e : e.pos = i)

\* The action at log position i ran to its end without a panic.
Completed(i) == i < Len(log) \/ (i = Len(log) /\ fatal = "None")

\* The positions of effects holding a call of this name.
CallsOf(name) == {x \in 1..Len(effects) : effects[x].call = name}

\* C1: no hub or backend call is issued before an Init has been consumed: a
\* first action that is not Init aborts replay with a fatal ProtocolViolation
\* and none of its calls is made.
C1_NoEffectBeforeInit ==
    /\ state = "AwaitingInit" => effects = <<>>
    /\ (Len(log) >= 1 /\ log[1].type # "Init") =>
        /\ fatal = "ProtocolViolation"
        /\ state = "AwaitingInit"
        /\ Len(log) = 1
    /\ \A x \in 1..Len(effects) :
        log[1].type = "Init" /\ effects[x].pos >= 2

C1_Witness ==
    /\ Len(log) = 1
    /\ log[1].type = "Submit"
    /\ fatal = "ProtocolViolation"
    /\ effects = <<>>

\* C2: an Init handed to process while replay is running is fatal, for every
\* device and every Init payload, and process issues no call for it.
C2_InitWhileRunningFatal ==
    \A i \in 2..Len(log) :
        log[i].type = "Init" =>
            /\ i = Len(log)
            /\ fatal = "ProtocolViolation"
            /\ EffectsAt(i) = <<>>

C2_Witness ==
    /\ state = "Running"
    /\ device = 2
    /\ Len(log) = 3
    /\ log[3].type = "Init" /\ log[3].backend = "Dx11"
    /\ fatal = "ProtocolViolation"
    /\ effects # <<>>

\* The number of calls one completed application of an action issues.
CallsPerAction(a) ==
    CASE a.type \in DestroyTypes -> 1
      [] a.type \in {"CreateBuffer", "CreateTexture", "CreateTextureView",
                     "CreateSampler", "CreatePipelineLayout",
                     "CreateBindGroup", "CreateComputePipeline",
                     "CreateRenderPipeline"} -> 2
      [] a.type \in {"CreateBindGroupLayout", "CreateShaderModule",
                     "CreateRenderBundle", "CreateQuerySet",
                     "WriteTexture"} -> 1
      [] a.type = "GetSwapChainTexture" -> Len(a.id)
      [] a.type = "WriteBuffer" -> IF a.queued THEN 1 ELSE 2
      [] a.type = "Submit" -> Len(a.commands) + 3
      [] OTHER -> 0

C3_AppliedInOrder ==
    /\ \A x \in 1..Len(effects) : effects[x].pos \in 2..Len(log)
    /\ \A x \in 1..(Len(effects) - 1) : effects[x].pos <= effects[x + 1].pos
    /\ \A i \in 2..Len(log) :
        /\ Completed(i) => Len(EffectsAt(i)) = CallsPerAction(log[i])
        /\ Len(EffectsAt(i)) <= CallsPerAction(log[i])

C3_Step ==
    /\ Len(log') <= Len(log) + 1
    /\ SubSeq(log', 1, Len(log)) = log
    /\ Len(effects') >= Len(effects)
    /\ SubSeq(effects', 1, Len(effects)) = effects
    /\ \A x \in (Len(effects) + 1)..Len(effects') :
        effects'[x].pos = Len(log')
    /\ fatal # "None" => (log' = log /\ effects' = effects /\ fatal' = fatal)

\* C3: each action of the log is applied exactly once and in log order: the
\* calls of an earlier action all come before the calls of a later one, every
\* step consumes one action and appends only that action's calls, and after a
\* fatal abort no further action is consumed and no further call is made.
C3_ExactlyOnceInLogOrder == [](C3_AppliedInOrder) /\ [][C3_Step]_vars

C3_Witness ==
    /\ Len(log) = 3
    /\ fatal = "CallFailure"
    /\ log[2].type = "Submit" /\ log[3].type = "Submit"
    /\ Len(EffectsAt(2)) = 5
    /\ Len(EffectsAt(3)) = 2

SubmissionOf(i) ==
    LET at == {x \in CallsOf("queue_submit") :
                    effects[x].pos = i /\ effects[x].ok}
    IN  IF at = {} THEN 0 ELSE CHOOSE x \in at : TRUE

SubmitPositions == {i \in 2..Len(log) : log[i].type = "Submit"}

EncoderCallOf ==
    [CopyBufferToBuffer |-> "command_encoder_copy_buffer_to_buffer",
     CopyBufferToTexture |-> "command_encoder_copy_buffer_to_texture",
     CopyTextureToBuffer |-> "command_encoder_copy_texture_to_buffer",
     CopyTextureToTexture |-> "command_encoder_copy_texture_to_texture",
     RunComputePass |-> "command_encoder_run_compute_pass_impl",
     RunRenderPass |-> "command_encoder_run_render_pass_impl"]

\* C7: encode_commands issues, on the given encoder, the call of each command
\* in the order of the commands, none skipped, doubled or moved, then one
\* finish whose command buffer id it returns; cut short by a failing call it
\* has issued the calls up to that one and returns nothing.
C7_EncodeOrderPreservingTotal ==
    call.encoder # 0 =>
        LET n == Len(call.commands)
            m == Len(effects)
        IN  /\ m \in 1..(n + 1)
            /\ \A k \in 1..m :
                /\ effects[k].ok <=> (k < m \/ fatal = "None")
                /\ k <= n =>
                    /\ effects[k].call = EncoderCallOf[call.commands[k].kind]
                    /\ effects[k].args = <<call.encoder, call.commands[k].arg>>
                /\ k = n + 1 =>
                    /\ effects[k].call = "command_encoder_finish"
                    /\ effects[k].args = <<call.encoder>>
            /\ fatal = "None" =>
                /\ m = n + 1
                /\ returned = effects[m].ret
                /\ returned # 0
            /\ fatal # "None" => returned = 0

C7_Witness ==
    /\ call.encoder = 2
    /\ Len(call.commands) >= 2
    /\ call.commands[1].kind = "RunRenderPass"
    /\ call.commands[2].kind = "CopyBufferToBuffer"
    /\ fatal = "None"
    /\ returned = 1

\* C8 as claimed: every Create* action other than CreateBindGroupLayout and
\* CreateShaderModule has device_maintain_ids called on the device before its
\* creation call.
C8_MaintainIdsBeforeCreate ==
    \A i \in 2..Len(log) :
        log[i].type \in {"CreateBuffer", "CreateTexture", "CreateTextureView",
                         "CreateSampler", "CreatePipelineLayout",
                         "CreateBindGroup", "CreateComputePipeline",
                         "CreateRenderPipeline", "CreateRenderBundle",
                         "CreateQuerySet"} =>
            \A x \in 1..Len(effects) :
                (effects[x].pos = i /\ effects[x].call # "device_maintain_ids")
                => \E y \in 1..(x - 1) :
                    /\ effects[y].pos = i
                    /\ effects[y].call = "device_maintain_ids"
                    /\ effects[y].dev = device

\* The destroy call of each resource kind.
DestroyOfKind ==
    [DestroyBuffer |-> "buffer_destroy",
     DestroyTexture |-> "texture_destroy",
     DestroyTextureView |-> "texture_view_destroy",
     DestroySampler |-> "sampler_destroy",
     DestroyBindGroupLayout |-> "bind_group_layout_destroy",
     DestroyPipelineLayout |-> "pipeline_layout_destroy",
     DestroyBindGroup |-> "bind_group_destroy",
     DestroyShaderModule |-> "shader_module_destroy",
     DestroyComputePipeline |-> "compute_pipeline_destroy",
     DestroyRenderPipeline |-> "render_pipeline_destroy",
     DestroyRenderBundle |-> "render_bundle_destroy",
     DestroyQuerySet |-> "query_set_destroy"]

\* C9: every Destroy* action issues exactly one call, the destroy of its
\* resource kind on the recorded id, and nothing else.
C9_DestroyForwardsOnce ==
    \A i \in 2..Len(log) :
        log[i].type \in DOMAIN DestroyOfKind =>
            /\ Completed(i)
            /\ Len(EffectsAt(i)) = 1
            /\ EffectsAt(i)[1].call = DestroyOfKind[log[i].type]
            /\ EffectsAt(i)[1].args = <<log[i].id>>

C9_Witness ==
    /\ Len(log) = 3
    /\ log[2].type = "DestroyTexture" /\ log[2].id = 1
    /\ log[3].type = "DestroyTextureView" /\ log[3].id = 2
    /\ Len(effects) = 2

\* C10: a WriteBuffer that is not queued waits for the buffer first and
\* writes only after the wait returned Ok: no write comes before the wait,
\* and none is made when the wait fails.
C10_WaitBeforeImmediateWrite ==
    (Len(log) = 1 /\ ~log[1].queued) =>
        /\ CallsOf("queue_write_buffer") = {}
        /\ \A x \in CallsOf("device_set_buffer_sub_data") :
            /\ x = 2
            /\ effects[1].call = "device_wait_for_buffer"
            /\ effects[1].ok
            /\ effects[1].dev = device
            /\ effects[1].args = <<log[1].id>>
            /\ effects[x].args = <<log[1].id, log[1].range[1]>>
        /\ (\E y \in CallsOf("device_wait_for_buffer") : ~effects[y].ok) =>
            /\ CallsOf("device_set_buffer_sub_data") = {}
            /\ fatal = "CallFailure"
        /\ fatal = "None" => CallsOf("device_set_buffer_sub_data") = {2}

C10_Witness ==
    /\ Len(log) = 1
    /\ ~log[1].queued
    /\ log[1].range = <<1, 2>>
    /\ fatal = "None"
    /\ Len(effects) = 2
    /\ effects[2].data = <<7>>

\* C11: a WriteBuffer with queued = true is replayed as one queue_write_buffer
\* at offset range.start and nothing else (no device_wait_for_buffer, no
\* device_set_buffer_sub_data); a WriteTexture is replayed as one
\* queue_write_texture and nothing else.  An action that aborts before its
\* write issues no call at all.
C11_QueuedWritesOnly ==
    \A i \in 2..Len(log) :
        LET a == log[i]
            fx == EffectsAt(i)
        IN  /\ (a.type = "WriteBuffer" /\ a.queued) =>
                /\ Len(fx) <= 1
                /\ Completed(i) => Len(fx) = 1
                /\ \A x \in 1..Len(fx) :
                    /\ fx[x].call = "queue_write_buffer"
                    /\ fx[x].args = <<a.id, a.range[1]>>
            /\ a.type = "WriteTexture" =>
                /\ Len(fx) <= 1
                /\ Completed(i) => Len(fx) = 1
                /\ \A x \in 1..Len(fx) :
                    /\ fx[x].call = "queue_write_texture"
                    /\ fx[x].args = <<a.to>>

C11_Witness ==
    /\ Len(log) = 3
    /\ log[2].type = "WriteBuffer" /\ log[2].queued
    /\ log[3].type = "WriteTexture"
    /\ fatal = "None"
    /\ Len(effects) = 2
    /\ effects[1].call = "queue_write_buffer"
    /\ effects[2].call = "queue_write_texture"

\* The write call of the action at log position i: the positions of effects
\* holding its queue_write_buffer or device_set_buffer_sub_data.
BufferWritesAt(i) ==
    {x \in 1..Len(effects) :
        /\ effects[x].pos = i
        /\ effects[x].call \in {"queue_write_buffer",
                                "device_set_buffer_sub_data"}}

\* C12: a replayed WriteBuffer writes exactly range.end - range.start bytes
\* starting at offset range.start, whether queued or not, so that no byte
\* outside the range is modified.
C12_WritesExactlyTheRange ==
    \A i \in 1..Len(log) :
        (log[i].type = "WriteBuffer" /\ Completed(i)) =>
            /\ Cardinality(BufferWritesAt(i)) = 1
            /\ \A x \in BufferWritesAt(i) :
                /\ effects[x].args = <<log[i].id, log[i].range[1]>>
                /\ Len(effects[x].data) = log[i].range[2] - log[i].range[1]

\* The actions that read a blob file of the trace directory.
BlobActions == {"WriteBuffer", "WriteTexture", "CreateShaderModule"}

\* C13: when the blob file of a WriteBuffer, WriteTexture or
\* CreateShaderModule cannot be read, process panics before it issues any
\* call for that action (no wait, no write, no creation), whatever the other
\* answers of the hub would have been.
C13_UnreadableBlobFatal ==
    /\ \A i \in 2..Len(log) :
        log[i].type \in BlobActions =>
            \A o \in Outcomes(log[i], ReplayBlobs, ReplayEncoderIds) :
                ~o.read.ok =>
                    process(device, log[i], o) = Panic(<<>>, "IOFailure")
    /\ fatal = "IOFailure" =>
        /\ log[Len(log)].type \in BlobActions
        /\ EffectsAt(Len(log)) = <<>>

C13_Witness ==
    /\ Len(log) = 3
    /\ log[2].type = "WriteTexture"
    /\ log[3].type = "CreateShaderModule"
    /\ fatal = "IOFailure"
    /\ Len(effects) = 1
    /\ effects[1].call = "queue_write_texture"

\* The commands recorded so far into the current raw command buffer.
Recorded(c) == c.raw[Len(c.raw)]

\* This step is a call of the named operation on the encoder.
Calls(op) == Len(log') = Len(log) + 1 /\ call'.op = op

\* The commands this step recorded into the current raw command buffer.
NewlyRecorded ==
    SubSeq(Recorded(cmb'), Len(Recorded(cmb)) + 1, Len(Recorded(cmb')))

C14_Step ==
    (/\ Calls("resolve_query_set")
     /\ "COPY_DST" \notin hub.buffers[call'.destination]) =>
        /\ fatal' = "PreconditionFailure"
        /\ cmb'.raw = cmb.raw

\* C14: resolve_query_set on a destination buffer whose usage lacks COPY_DST
\* fails its precondition check, and records neither a pipeline barrier nor
\* a copy of query results (nor anything else) into the command buffer.
C14_NoBarrierNoCopyOnFailure == [][C14_Step]_vars

C14_Witness ==
    /\ Len(log) = 2
    /\ log[1].op = "resolve_query_set" /\ log[2].op = "resolve_query_set"
    /\ log[1].destination # log[2].destination
    /\ fatal = "PreconditionFailure"
    /\ Len(Recorded(cmb)) = 2

C15_Step ==
    (Calls("resolve_query_set") /\ fatal' = "PreconditionFailure") =>
        cmb' = cmb

\* C15: the precondition failure of resolve_query_set comes before any side
\* effect: after the failed call the command buffer, its buffer usage tracker
\* included, is as it was before the call.
C15_FailureLeavesEncoderUnchanged == [][C15_Step]_vars

C16_Step ==
    (Calls("resolve_query_set") /\ fatal' = "None") =>
        /\ Len(Recorded(cmb')) = Len(Recorded(cmb)) + 2
        /\ SubSeq(Recorded(cmb'), 1, Len(Recorded(cmb))) = Recorded(cmb)
        /\ LET barrier == NewlyRecorded[1]
               copy == NewlyRecorded[2]
           IN  /\ barrier.cmd = "pipeline_barrier"
               /\ barrier.args[1] = <<"ALL_BUFFER_STAGES", "TRANSFER">>
               /\ Len(barrier.args[3]) = 1
               /\ barrier.args[3][1].buffer = call'.destination
               /\ copy.cmd = "copy_query_pool_results"
               /\ copy.args[1] = call'.query_set
               /\ copy.args[2] = <<call'.first_query,
                                   call'.first_query + call'.query_count>>
               /\ copy.args[3] = call'.destination
               /\ copy.args[4] = call'.destination_offset
               /\ copy.args[6] = {"WAIT", "WITH_AVAILABILITY", "BITS_64"}

\* C16: a successful resolve_query_set records exactly one pipeline barrier
\* (all buffer stages to the transfer stage, on the destination buffer) and
\* then exactly one copy of query results, which covers the slots
\* first_query up to first_query + query_count at destination_offset and
\* asks for WAIT, WITH_AVAILABILITY and BITS_64.
C16_BarrierThenCopy == [][C16_Step]_vars

\* The copies of query results recorded so far.
Copies ==
    {x \in 1..Len(Recorded(cmb)) :
        Recorded(cmb)[x].cmd = "copy_query_pool_results"}

\* C17: every copy of query results that resolve_query_set records is given
\* the same stride of 16 bytes per entry, whatever the type of the query set
\* (Occlusion, PipelineStatistics, Timestamp), first_query, query_count and
\* destination_offset.
C17_FixedStride ==
    \A x \in Copies : Recorded(cmb)[x].args[5] = 16

C17_Witness ==
    /\ Len(log) = 2 /\ fatal = "None"
    /\ Cardinality(Copies) = 2
    /\ hub.query_sets[log[1].query_set].type = "PipelineStatistics"
    /\ hub.query_sets[log[2].query_set].type = "Timestamp"
    /\ log[1].query_count # log[2].query_count
    /\ log[1].destination_offset # log[2].destination_offset

C18_Step ==
    Calls("begin_pipeline_statistics_query") =>
        NewlyRecorded =
            <<Hal("reset_query_pool",
                  <<call'.query_set,
                    <<call'.query_index, call'.query_index + 1>>>>),
              Hal("begin_query", <<call'.query_set, call'.query_index, {}>>)>>

\* C18: begin_pipeline_statistics_query(query_index) records a reset of the
\* one slot range from query_index to query_index + 1 of the query set and
\* then a begin-query on that slot, and nothing else, for every query_index
\* of the index type.
C18_ResetThenBegin == [][C18_Step]_vars

\* The calls of make_binary made so far, in order, each with what it returned.
MakeBinaryCalls == SelectSeq(log, LAMBDA e : e.call.op = "make_binary")

C19_Numbered ==
    /\ \A k \in 1..Len(MakeBinaryCalls) :
        MakeBinaryCalls[k].ret =
            "data" \o ToString(k) \o "." \o MakeBinaryCalls[k].call.kind
    /\ \A j, k \in 1..Len(MakeBinaryCalls) :
        j # k => MakeBinaryCalls[j].ret # MakeBinaryCalls[k].ret
    /\ trace.binary_id = Len(MakeBinaryCalls)

C19_Step ==
    /\ Calls("add") => trace'.binary_id = trace.binary_id
    /\ Calls("make_binary") => trace'.binary_id = trace.binary_id + 1

\* C19: the k-th call of make_binary on a Trace returns data<k>.<kind>,
\* whatever calls of add come in between and whether or not the blob files
\* could be written: the numbers go up by one from 1, no name is returned
\* twice, and add leaves the counter alone.
C19_NumberedBlobNames == [](C19_Numbered) /\ [][C19_Step]_vars

C19_Witness ==
    /\ Len(log) = 3
    /\ log[1].call.op = "make_binary" /\ log[1].ret = "data1.bin"
    /\ ~log[1].call.written
    /\ log[2].call.op = "add"
    /\ log[3].call.op = "make_binary" /\ log[3].ret = "data2.spv"

\* The calls of add whose record was serialized and written to the file.
AddsKept ==
    SelectSeq(log, LAMBDA e :
        e.call.op = "add" /\ e.call.ok /\ e.call.written)

C20_LogHoldsTheOthers ==
    state = "Tracing" =>
        trace.file = <<"[\n">> \o
            [i \in 1..Len(AddsKept) |->
                to_string_pretty(AddsKept[i].call.action, TRUE).string
                    \o ",\n"]

C20_Step ==
    (Calls("add") /\ ~call'.ok) =>
        /\ trace' = trace
        /\ fatal' = "None"
        /\ state' = "Tracing"

\* C20: a record that fails to serialize is dropped by add and nothing else
\* happens: add returns, nothing is appended to the file for it, capture
\* goes on, and the file holds the records added before and after it (those
\* whose write went through), in the order in which they were added.
C20_SerializationFailureDropsRecord ==
    [](C20_LogHoldsTheOthers) /\ [][C20_Step]_vars

C20_Witness ==
    /\ Len(log) = 3
    /\ log[1].call.op = "add" /\ log[1].call.ok /\ log[1].call.written
    /\ log[2].call.op = "add" /\ ~log[2].call.ok /\ log[2].call.written
    /\ log[3].call.op = "add" /\ log[3].call.ok /\ log[3].call.written
    /\ log[1].call.action.type = "Init"
    /\ log[3].call.action.type = "WriteBuffer"
    /\ Len(trace.file) = 3
    /\ state = "Tracing"

\* The text add writes for a record: the record, a comma, a newline.
Separated(action) == to_string_pretty(action, TRUE).string \o ",\n"

\* The closing bracket has been written.
Closed == state = "Dropped" /\ call.written

C21_Bracketed ==
    /\ trace.file =
        <<"[\n">>
        \o [i \in 1..Len(AddsKept) |-> Separated(AddsKept[i].call.action)]
        \o (IF Closed THEN <<"]">> ELSE <<>>)
    /\ Cardinality({i \in 1..Len(trace.file) : trace.file[i] = "]"}) <= 1

C21_Step == state = "Dropped" => trace' = trace

\* C21: from Trace::new to the drop, the file holds the opening bracket,
\* then the records that were serialized and written, in the order of the
\* add calls and each followed by its separator (the last one too), then the
\* closing bracket, written once, at the drop; nothing is written before the
\* opening bracket or after the closing one.
C21_BracketedSeparatedLog == [](C21_Bracketed) /\ [][C21_Step]_vars

C21_Witness ==
    /\ Closed
    /\ Len(log) = 3
    /\ \A i \in 1..3 :
        log[i].call.op = "add" /\ log[i].call.ok /\ log[i].call.written
    /\ log[1].call.action.type = "Init"
    /\ log[2].call.action.type = "WriteBuffer"
    /\ log[3].call.action.type = "DestroyBuffer"
    /\ Len(trace.file) = 5
    /\ trace.file[4] = "DestroyBuffer(" \o ToString(log[3].call.action.id)
                        \o "),\n"
    /\ trace.file[5] = "]"

C22_Step ==
    /\ (Calls("make_binary") /\ ~call'.written) =>
        /\ trace'.binary_id = trace.binary_id + 1
        /\ returned' = BinaryName(trace'.binary_id, call'.kind)
        /\ trace'.dir = trace.dir /\ trace'.file = trace.file
        /\ fatal' = "None" /\ state' = "Tracing"
    /\ (Calls("add") /\ ~call'.written) =>
        /\ trace' = trace
        /\ fatal' = "None" /\ state' = "Tracing"
    /\ (state = "Tracing" /\ state' = "Dropped" /\ ~call'.written) =>
        /\ trace' = trace
        /\ fatal' = "None"

\* C22: a failed write never aborts capture: make_binary, add and the drop
\* return normally when the write to the file fails; make_binary still
\* advances the counter and returns the name of the blob file that was not
\* written, and the calls that follow go on as usual.
C22_WriteFailureNeverAborts == [][C22_Step]_vars

C22_Witness ==
    /\ state = "Dropped" /\ ~call.written
    /\ fatal = "None"
    /\ Len(log) = 3
    /\ log[1].call.op = "make_binary" /\ ~log[1].call.written
    /\ log[2].call.op = "add" /\ log[2].call.ok /\ ~log[2].call.written
    /\ log[3].call.op = "make_binary" /\ log[3].call.written
    /\ log[3].ret = "data2.bin"
    /\ trace.file = <<"[\n">>
    /\ Cardinality(trace.dir) = 1

\* The last n commands recorded into the current raw command buffer.
LastRecorded(c, n) ==
    SubSeq(Recorded(c), Len(Recorded(c)) - n + 1, Len(Recorded(c)))

C27_Step ==
    Calls("end_pipeline_statistics_query") =>
        /\ NewlyRecorded =
            <<Hal("end_query", <<call'.query_set, call'.query_index>>)>>
        /\ SubSeq(Recorded(cmb'), 1, Len(Recorded(cmb))) = Recorded(cmb)
        /\ (/\ call.op = "begin_pipeline_statistics_query"
            /\ call.query_set = call'.query_set
            /\ call.query_index = call'.query_index) =>
                LastRecorded(cmb', 3) =
                    <<Hal("reset_query_pool",
                          <<call'.query_set,
                            <<call'.query_index, call'.query_index + 1>>>>),
                      Hal("begin_query",
                          <<call'.query_set, call'.query_index, {}>>),
                      Hal("end_query",
                          <<call'.query_set, call'.query_index>>)>>

\* C27: end_pipeline_statistics_query(query_index) records one end-query on
\* the slot and nothing else, so that a begin on a slot followed by the end
\* on it leaves exactly the reset of the slot range from query_index to
\* query_index + 1, the begin-query and the end-query, in that order.
C27_EndAfterBegin == [][C27_Step]_vars

\* The id was handed out and destroyed earlier in the log.
Retired(id) ==
    \E j, k \in 1..Len(log) :
        /\ j < k
        /\ log[j].type = "CreateBuffer" /\ log[j].id = id
        /\ log[k].type = "DestroyBuffer" /\ log[k].id = id

\* This step replays an action that names a retired id whose index has been
\* taken again under another epoch.
UsesStaleId ==
    /\ Len(log') = Len(log) + 1
    /\ log'[Len(log')].type \in {"DestroyBuffer", "WriteBuffer"}
    /\ Retired(log'[Len(log')].id)
    /\ hub.buffers[log'[Len(log')].id.index].live

C23_Step ==
    UsesStaleId =>
        /\ fatal' = "InvalidHandle"
        /\ hub' = hub

\* C23: once a buffer was destroyed and its index given to a new buffer under
\* a new epoch, an action that still names the old id fails with
\* InvalidHandle and leaves the new buffer alone.
C23_StaleIdNeverResolves == [][C23_Step]_vars

C23_Witness ==
    /\ Len(log) = 4
    /\ log[1].type = "CreateBuffer" /\ log[1].id = zip(1, 1, "Vulkan")
    /\ log[2].type = "DestroyBuffer" /\ log[2].id = log[1].id
    /\ log[3].type = "CreateBuffer" /\ log[3].id = zip(1, 2, "Vulkan")
    /\ log[4].type = "WriteBuffer" /\ log[4].id = log[1].id
    /\ fatal = "InvalidHandle"
    /\ hub.buffers[1] = [epoch |-> 2, live |-> TRUE]

\* C24: the id IdentityPassThrough::process hands out has the index and the
\* epoch of the recorded id and the backend it was given as its tag, and a
\* call dispatched on it goes to the implementation of that backend and to
\* no other, or faults when the build has no implementation of it.
C24_TagIsCreatingBackend ==
    /\ call.op = "process" =>
        /\ returned.index = call.id.index
        /\ returned.epoch = call.id.epoch
        /\ returned.backend = call.backend
    /\ \A x \in 1..Len(effects) :
        /\ effects[x].implementation = call.backend
        /\ effects[x].id.backend = call.backend
        /\ call.backend \in CompiledBackends
    /\ fatal # "None" =>
        /\ fatal = "Unreachable"
        /\ call.backend \notin CompiledBackends
        /\ effects = <<>>

C24_Witness ==
    /\ call.op = "process"
    /\ call.id = zip(2, 2, "Metal")
    /\ call.backend = "Vulkan"
    /\ returned = zip(2, 2, "Vulkan")
    /\ Len(effects) = 1
    /\ effects[1].implementation = "Vulkan"

\* The place of a registry in the fixed order of acquisition.
Rank(registry) ==
    CHOOSE x \in 1..Len(Registries) : Registries[x] = registry

\* Caller t holds registry a and took it before registry b.
HeldBefore(t, a, b) ==
    \E x, y \in 1..Len(threads[t].held) :
        /\ x < y
        /\ threads[t].held[x].registry = a
        /\ threads[t].held[y].registry = b

\* A caller inside a call that can take its next step.
Runnable(t) ==
    /\ InCall(threads, t)
    /\ \A guard \in Wanted(threads, t) : Admits(threads, guard)

\* C25: every query call takes the command-buffer registry for writing, then
\* the query-set registry for reading, then (resolve only) the buffer
\* registry for reading, each at most once; no two callers hold the same two
\* registries taken in opposite orders; and the callers never deadlock.
C25_FixedLockOrder ==
    /\ \A t \in Threads :
        LET held == threads[t].held
        IN  /\ \A x \in 1..Len(held) :
                /\ Rank(held[x].registry) = x
                /\ held[x].mode = IF x = 1 THEN "write" ELSE "read"
            /\ Len(held) = 3 => threads[t].call.op = "resolve_query_set"
    /\ \A t, u \in Threads :
        \A a, b \in {Registries[x] : x \in 1..Len(Registries)} :
            ~(HeldBefore(t, a, b) /\ HeldBefore(u, b, a))
    /\ (fatal = "None" /\ \E t \in Threads : InCall(threads, t))
        => \E t \in Threads : Runnable(t)

\* One caller holds all three registries for a resolve while the other has
\* entered a call and waits for the command-buffer registry.
C25_Witness ==
    /\ threads[1].call.op = "resolve_query_set"
    /\ Len(threads[1].held) = 3
    /\ threads[2].call.op = "begin_pipeline_statistics_query"
    /\ threads[2].held = <<>>
    /\ ~Runnable(2)
    /\ Len(log) = 0

\* The calls of add made so far, in order.
AddCalls == SelectSeq(log, LAMBDA e : e.call.op = "add")

\* The actions handed to add, in order.
Captured == [i \in 1..Len(AddCalls) |-> AddCalls[i].call.action]

\* Reading the trace directory back gives the actions that were captured
\* and, for every name make_binary returned, the bytes it was given.
ReadsBackAsCaptured ==
    /\ from_reader(trace.file).ok
    /\ from_reader(trace.file).actions = Captured
    /\ \A k \in 1..Len(MakeBinaryCalls) :
        read(trace.dir, MakeBinaryCalls[k].ret)
            = {MakeBinaryCalls[k].call.data}

\* Every record was serialized and every write to the directory went
\* through, the closing bracket included.
AllWritten ==
    /\ Closed
    /\ \A i \in 1..Len(log) :
        /\ log[i].call.written
        /\ log[i].call.op = "add" => log[i].call.ok

====
